---- MODULE Spec2Model ----
(***************************************************************************)
(* Model of pkg/table/tblctx/buffers.go (EncodeRowBuffer, CheckRowBuffer,  *)
(* MutateBuffers, ensureCapacityAndReset).                                 *)
(*                                                                         *)
(* A Go slice is a record [ptr, len, cap]; ptr is the address of its       *)
(* backing array in a heap (0: no backing array).  There is one heap per   *)
(* element type: memI holds []int64 arrays, memD holds []types.Datum       *)
(* arrays, memB holds []byte arrays.  A heap maps the address of every     *)
(* live array to its cap cells, so the cells beyond a slice's logical      *)
(* length, and two slices sharing one array, are part of the state.        *)
(* Addresses carry no meaning beyond identity: after every operation the   *)
(* live arrays are renumbered by their owner, so that two states differing *)
(* only in where the allocator placed the arrays are one state.            *)
(***************************************************************************)
EXTENDS Integers, Sequences, FiniteSets, TLC

\* Largest capacity a caller passes to Reset / Get...WithCap.
MaxCapHint == 2
\* Most columns a caller adds to a buffer before it resets it.
MaxRowLen == 2
\* Most columns a caller adds to a buffer while the encode cycle and the check
\* cycle of the pool are interleaved.
MaxInterleavedLen == 2
\* Largest length, capacity and hint of the ensureCapacityAndReset harness.
MaxEnsure == 3
\* Most arguments of a builtin function signature.
MaxArgs == 2
\* Number of sessions calling SafeToShareAcrossSession on one signature.
NumCallers == 2
\* Most type declarations of a parsed file.
MaxTypes == 2

\* The (column id, value) pairs a caller adds.
Cols == {<<1, 10>>, <<2, 20>>}
Datums == {10, 20}
FlagSeqs == {<<>>, <<"F1">>, <<"F2", "F1">>}
Keys == {"k1", "k2"}
Handles == {7, 8}
Nil == "nil"

VARIABLES memI, memD, memB, encodeRow, checkRow, stmtBufs, hEnc, hChk,
          lastOp, encAdded, chkAdded, ecMem, ecSlice, ecOut,
          sigBuilt, args, flag, calls, returned, collected

vars == <<memI, memD, memB, encodeRow, checkRow, stmtBufs, hEnc, hChk,
          lastOp, encAdded, chkAdded, ecMem, ecSlice, ecOut,
          sigBuilt, args, flag, calls, returned, collected>>

poolVars == <<memI, memD, memB, encodeRow, checkRow, stmtBufs, hEnc, hChk,
              lastOp, encAdded, chkAdded>>

ensureVars == <<ecMem, ecSlice, ecOut>>

\* The state of the code the generator writes (one builtin function signature
\* and the calls of its SafeToShareAcrossSession), and of the generator.
shareVars == <<sigBuilt, args, flag, calls, returned>>
genVars == <<sigBuilt, args, flag, calls, returned, collected>>

-----------------------------------------------------------------------------
(* Slices and heaps *)

NilSlice == [ptr |-> 0, len |-> 0, cap |-> 0]

EmptyMem == [a \in {} |-> <<>>]

Zeros(n) == [i \in 1..n |-> 0]

\* The address the allocator hands out next: the lowest one holding no live array.
FreshAddr(mem) ==
    CHOOSE a \in 1..(Cardinality(DOMAIN mem) + 1) :
        /\ a \notin DOMAIN mem
        /\ \A b \in 1..(a - 1) : b \in DOMAIN mem

\* make([]T, size, capacity): a zeroed array of its own; panics when size > capacity.
Make(mem, size, capacity) ==
    IF size < 0 \/ size > capacity
    THEN [mem |-> mem, slice |-> NilSlice, panic |-> TRUE]
    ELSE IF capacity = 0
    THEN [mem |-> mem, slice |-> NilSlice, panic |-> FALSE]
    ELSE LET a == FreshAddr(mem) IN
         [mem |-> [x \in DOMAIN mem \cup {a} |->
                        IF x = a THEN Zeros(capacity) ELSE mem[x]],
          slice |-> [ptr |-> a, len |-> size, cap |-> capacity],
          panic |-> FALSE]

\* slice[:size]: the same array with another length; panics when size > cap(slice).
Reslice(mem, slice, size) ==
    IF size < 0 \/ size > slice.cap
    THEN [mem |-> mem, slice |-> NilSlice, panic |-> TRUE]
    ELSE [mem |-> mem,
          slice |-> IF slice.cap = 0 THEN NilSlice ELSE [slice EXCEPT !.len = size],
          panic |-> FALSE]

\* The elements a reader of the slice sees: the first len cells of its array.
View(mem, slice) ==
    IF slice.len = 0 THEN <<>> ELSE SubSeq(mem[slice.ptr], 1, slice.len)

\* All cap cells of the slice's array, those beyond the logical length included.
Cells(mem, slice) ==
    IF slice.cap = 0 THEN <<>> ELSE mem[slice.ptr]

\* ensureCapacityAndReset without the reuse: always a new array.
ensureCapacityAndResetShrinks(mem, slice, size, optCap) ==
    Make(mem, size, IF Len(optCap) > 0 THEN optCap[1] ELSE size)

\* ensureCapacityAndReset returning the slice as it is when it has the capacity.
ensureCapacityAndResetKeepsLen(mem, slice, size, optCap) ==
    LET capacity == IF Len(optCap) > 0 THEN optCap[1] ELSE size IN
    IF slice.cap < capacity
    THEN Make(mem, size, capacity)
    ELSE [mem |-> mem, slice |-> slice, panic |-> FALSE]

\* ensureCapacityAndReset allocating also when the capacity equals the one asked for.
ensureCapacityAndResetStrict(mem, slice, size, optCap) ==
    LET capacity == IF Len(optCap) > 0 THEN optCap[1] ELSE size IN
    IF slice.cap <= capacity
    THEN Make(mem, size, capacity)
    ELSE Reslice(mem, slice, size)

\* ensureCapacityAndReset(slice, size, optCap...)
ensureCapacityAndReset(mem, slice, size, optCap) ==
    LET capacity == IF Len(optCap) > 0 THEN optCap[1] ELSE size IN
    IF slice.cap < capacity
    THEN Make(mem, size, capacity)
    ELSE Reslice(mem, slice, size)

\* append(slice, x): in place when there is room, otherwise into a larger array
\* of its own (capacity doubled, or the needed length when that is more) that
\* receives a copy of the elements.
GoAppend(mem, slice, x) ==
    IF slice.len < slice.cap
    THEN [mem |-> [mem EXCEPT ![slice.ptr][slice.len + 1] = x],
          slice |-> [slice EXCEPT !.len = slice.len + 1]]
    ELSE LET needed == slice.len + 1
             newcap == IF needed > 2 * slice.cap THEN needed ELSE 2 * slice.cap
             a      == FreshAddr(mem)
             old    == View(mem, slice)
             arr    == [i \in 1..newcap |->
                            IF i <= slice.len THEN old[i]
                            ELSE IF i = needed THEN x ELSE 0]
         IN [mem |-> [y \in DOMAIN mem \cup {a} |-> IF y = a THEN arr ELSE mem[y]],
             slice |-> [ptr |-> a, len |-> needed, cap |-> newcap]]

\* Whether roots[i] is the first slice of `roots` that owns its array.
FirstOwner(roots, i) ==
    /\ roots[i].ptr # 0
    /\ \A j \in 1..(i - 1) : roots[j].ptr # roots[i].ptr

\* The address of a live array after renumbering: the position in `roots` (the
\* slices the program still holds, in a fixed order) of its first owner.
Renumber(roots, a) ==
    IF a = 0 THEN 0
    ELSE CHOOSE i \in 1..Len(roots) : roots[i].ptr = a /\ FirstOwner(roots, i)

\* The garbage collector: only the arrays some slice in `roots` points to stay,
\* each at its renumbered address.
Collect(mem, roots) ==
    [n \in {i \in 1..Len(roots) : FirstOwner(roots, i)} |-> mem[roots[n].ptr]]

\* A slice the program still holds, after the renumbering.
Moved(roots, slice) == [slice EXCEPT !.ptr = Renumber(roots, slice.ptr)]

-----------------------------------------------------------------------------
(* Collaborators: the row encoder, the error context, the key-value store *)

\* The encoded form of a row, as far as this package is concerned: one opaque
\* unit that is a function of the values and the ids in their order.  Its
\* length in bytes is not modelled.
EncodedBytes(vals, ids) == << <<ids, vals>> >>

\* What a caller puts in place of a unit of encoded bytes it overwrites.
Scribble == << <<0>>, <<0>> >>

\* The encoder's output written through buf[:0]: in place when buf has room for
\* it, otherwise into an array of its own.
WriteBytes(mem, buf, content) ==
    LET n == Len(content) IN
    IF n <= buf.cap
    THEN [mem |-> [mem EXCEPT ![buf.ptr] =
                       [i \in 1..buf.cap |-> IF i <= n THEN content[i] ELSE @[i]]],
          slice |-> [buf EXCEPT !.len = n]]
    ELSE LET a == FreshAddr(mem) IN
         [mem |-> [y \in DOMAIN mem \cup {a} |-> IF y = a THEN content ELSE mem[y]],
          slice |-> [ptr |-> a, len |-> n, cap |-> n]]

\* The row encoder (tablecodec.EncodeRow / tablecodec.EncodeOldRow): reads the
\* values and the ids and appends the encoded row to valBuf[:0].  encErr is the
\* error it meets (Nil: none); on an error it returns no bytes.  What it keeps
\* in the cells of its scratch area `values` is its own business and is not
\* part of the state.
EncodeRow(mB, vals, ids, valBuf, values, encErr) ==
    IF Len(vals) # Len(ids)
    THEN [memB |-> mB, bytes |-> NilSlice, err |-> "ErrLenMismatch"]
    ELSE IF encErr # Nil
    THEN [memB |-> mB, bytes |-> NilSlice, err |-> encErr]
    ELSE LET w == WriteBytes(mB, valBuf, EncodedBytes(vals, ids))
         IN [memB |-> w.mem, bytes |-> w.slice, err |-> Nil]

\* errctx.Context.HandleError: no error stays no error; an error is returned
\* at level "error" and suppressed (nil) at the levels "warn" and "ignore".
HandleError(err, level) ==
    IF err = Nil THEN Nil
    ELSE IF level = "error" THEN err ELSE Nil

ErrLevels == {"error", "ignore"}
EncErrs == {Nil, "ErrEncode"}
SetErrs == {Nil, "ErrSet"}

-----------------------------------------------------------------------------
(* EncodeRowBuffer, CheckRowBuffer and MutateBuffers *)

\* NewMutateBuffers(stmtBufs): the pool's one EncodeRowBuffer, bound to the
\* session's WriteStmtBufs, and its one CheckRowBuffer; all slices are nil.
NewEncodeRow == [colIDs |-> NilSlice, row |-> NilSlice, writeStmtBufs |-> "stmtBufs"]
NewCheckRow == [rowToCheck |-> NilSlice]
NewStmtBufs == [RowValBuf |-> NilSlice, AddRowValues |-> NilSlice]
MutateBuffers == [stmtBufs |-> "stmtBufs", encodeRow |-> "encodeRow", checkRow |-> "checkRow"]

\* The slices the program holds, per heap, in the order of the renumbering.
RootsI(e) == <<e.colIDs>>
RootsD(e, c, sb) == <<e.row, c.rowToCheck, sb.AddRowValues>>
RootsB(sb, held) == <<sb.RowValBuf, held>>

\* Reset of the values only: the ids keep their length.
EncodeRowResetRowOnly(mI, mD, b, capacity) ==
    LET r2 == ensureCapacityAndReset(mD, b.row, 0, <<capacity>>)
    IN [memI |-> mI, memD |-> r2.mem, buf |-> [b EXCEPT !.row = r2.slice]]

\* Reset leaving the buffer as it is.
EncodeRowResetKeepsRow(mI, mD, b, capacity) ==
    [memI |-> mI, memD |-> mD, buf |-> b]

\* EncodeRowBuffer.Reset(capacity)
EncodeRowReset(mI, mD, b, capacity) ==
    LET r1 == ensureCapacityAndReset(mI, b.colIDs, 0, <<capacity>>)
        r2 == ensureCapacityAndReset(mD, b.row, 0, <<capacity>>)
    IN [memI |-> r1.mem, memD |-> r2.mem,
        buf |-> [b EXCEPT !.colIDs = r1.slice, !.row = r2.slice]]

\* AddColVal keyed by column id: an id the row already has is not added again.
EncodeRowAddColValDedup(mI, mD, b, colID, val) ==
    IF colID \in {View(mI, b.colIDs)[i] : i \in 1..b.colIDs.len}
    THEN [memI |-> mI, memD |-> mD, buf |-> b]
    ELSE LET r1 == GoAppend(mI, b.colIDs, colID)
             r2 == GoAppend(mD, b.row, val)
         IN [memI |-> r1.mem, memD |-> r2.mem,
             buf |-> [b EXCEPT !.colIDs = r1.slice, !.row = r2.slice]]

\* EncodeRowBuffer.AddColVal(colID, val)
EncodeRowAddColVal(mI, mD, b, colID, val) ==
    LET r1 == GoAppend(mI, b.colIDs, colID)
        r2 == GoAppend(mD, b.row, val)
    IN [memI |-> r1.mem, memD |-> r2.mem,
        buf |-> [b EXCEPT !.colIDs = r1.slice, !.row = r2.slice]]

\* CheckRowBuffer.Reset(capacity)
CheckRowReset(mD, b, capacity) ==
    LET r == ensureCapacityAndReset(mD, b.rowToCheck, 0, <<capacity>>)
    IN [memD |-> r.mem, buf |-> [b EXCEPT !.rowToCheck = r.slice]]

\* CheckRowBuffer.AddColVal(val)
CheckRowAddColVal(mD, b, val) ==
    LET r == GoAppend(mD, b.rowToCheck, val)
    IN [memD |-> r.mem, buf |-> [b EXCEPT !.rowToCheck = r.slice]]

\* GetRowToCheck reading the whole backing array instead of the slice.
CheckRowGetRowToCheckWholeArray(mD, b) == Cells(mD, b.rowToCheck)

\* CheckRowBuffer.GetRowToCheck(): a row made of a copy of the datums.
CheckRowGetRowToCheck(mD, b) == View(mD, b.rowToCheck)

\* A caller that is not inside safeToShareAcrossSession.
IdleCall == [pc |-> "idle", flagV |-> 0, allArgsSafe |-> TRUE, asked |-> 0,
             result |-> FALSE]

Init ==
    /\ memI = EmptyMem /\ memD = EmptyMem /\ memB = EmptyMem
    /\ encodeRow = NewEncodeRow
    /\ checkRow = NewCheckRow
    /\ stmtBufs = NewStmtBufs
    /\ hEnc = {}
    /\ hChk = {}
    /\ lastOp = [op |-> "NewMutateBuffers"]
    /\ encAdded = <<>>
    /\ chkAdded = <<>>
    /\ ecMem = EmptyMem
    /\ ecSlice = NilSlice
    /\ ecOut = [op |-> "none"]
    /\ sigBuilt = FALSE
    /\ args = <<>>
    /\ flag = 0
    /\ calls = [c \in 1..NumCallers |-> IdleCall]
    /\ returned = {}
    /\ collected = [op |-> "none"]

\* The heaps and the three objects after an operation: what the operation left
\* (mI, mD, mB, e, c, sb; held: bytes its caller keeps), garbage collected.
Commit(mI, mD, mB, e, c, sb, held) ==
    LET rI == RootsI(e)
        rD == RootsD(e, c, sb)
        rB == RootsB(sb, held)
    IN /\ memI' = Collect(mI, rI)
       /\ memD' = Collect(mD, rD)
       /\ memB' = Collect(mB, rB)
       /\ encodeRow' = [e EXCEPT !.colIDs = Moved(rI, @), !.row = Moved(rD, @)]
       /\ checkRow' = [c EXCEPT !.rowToCheck = Moved(rD, @)]
       /\ stmtBufs' = [sb EXCEPT !.RowValBuf = Moved(rB, @),
                                 !.AddRowValues = Moved(rD, @)]

\* MutateBuffers.GetEncodeRowBufferWithCap(capacity).  inFlight: the call
\* before this one was an AddColVal, so that the row it added to has not
\* reached a terminal operation.
GetEncodeRowBufferWithCap(capacity) ==
    /\ LET r == EncodeRowReset(memI, memD, encodeRow, capacity)
       IN Commit(r.memI, r.memD, memB, r.buf, checkRow, stmtBufs, NilSlice)
    /\ hEnc' = hEnc \cup {MutateBuffers.encodeRow}
    /\ lastOp' = [op |-> "GetEncodeRowBufferWithCap",
                  ret |-> MutateBuffers.encodeRow,
                  inFlight |-> lastOp.op = "EncAddColVal"]
    /\ encAdded' = <<>>
    /\ UNCHANGED <<hChk, chkAdded, ensureVars, genVars>>

\* EncodeRowBuffer.Reset(capacity), called on a buffer the pool handed out.
EncReset(capacity) ==
    /\ hEnc # {}
    /\ LET r == EncodeRowReset(memI, memD, encodeRow, capacity)
       IN Commit(r.memI, r.memD, memB, r.buf, checkRow, stmtBufs, NilSlice)
    /\ lastOp' = [op |-> "EncReset", capacity |-> capacity]
    /\ encAdded' = <<>>
    /\ UNCHANGED <<hEnc, hChk, chkAdded, ensureVars, genVars>>

\* EncodeRowBuffer.AddColVal(colID, val), called on a buffer the pool handed out.
EncAddColVal(colID, val) ==
    /\ hEnc # {}
    /\ encodeRow.row.len < MaxRowLen
    /\ LET r == EncodeRowAddColVal(memI, memD, encodeRow, colID, val)
       IN Commit(r.memI, r.memD, memB, r.buf, checkRow, stmtBufs, NilSlice)
    /\ lastOp' = [op |-> "EncAddColVal"]
    /\ encAdded' = Append(encAdded, <<colID, val>>)
    /\ UNCHANGED <<hEnc, hChk, chkAdded, ensureVars, genVars>>

\* GetCheckRowBufferWithCap resetting the encode buffer as well.
GetCheckRowBufferWithCapResetsBoth(capacity) ==
    /\ LET r == CheckRowReset(memD, checkRow, capacity)
           e == EncodeRowReset(memI, r.memD, encodeRow, capacity)
       IN Commit(e.memI, e.memD, memB, e.buf, r.buf, stmtBufs, NilSlice)
    /\ hChk' = hChk \cup {MutateBuffers.checkRow}
    /\ lastOp' = [op |-> "GetCheckRowBufferWithCap",
                  ret |-> MutateBuffers.checkRow,
                  inFlight |-> lastOp.op = "ChkAddColVal"]
    /\ chkAdded' = <<>>
    /\ UNCHANGED <<hEnc, encAdded, ensureVars, genVars>>

\* MutateBuffers.GetCheckRowBufferWithCap(capacity).
GetCheckRowBufferWithCap(capacity) ==
    /\ LET r == CheckRowReset(memD, checkRow, capacity)
       IN Commit(memI, r.memD, memB, encodeRow, r.buf, stmtBufs, NilSlice)
    /\ hChk' = hChk \cup {MutateBuffers.checkRow}
    /\ lastOp' = [op |-> "GetCheckRowBufferWithCap",
                  ret |-> MutateBuffers.checkRow,
                  inFlight |-> lastOp.op = "ChkAddColVal"]
    /\ chkAdded' = <<>>
    /\ UNCHANGED <<hEnc, encAdded, ensureVars, genVars>>

\* CheckRowBuffer.Reset(capacity), called on a buffer the pool handed out.
ChkReset(capacity) ==
    /\ hChk # {}
    /\ LET r == CheckRowReset(memD, checkRow, capacity)
       IN Commit(memI, r.memD, memB, encodeRow, r.buf, stmtBufs, NilSlice)
    /\ lastOp' = [op |-> "ChkReset"]
    /\ chkAdded' = <<>>
    /\ UNCHANGED <<hEnc, hChk, encAdded, ensureVars, genVars>>

\* CheckRowBuffer.AddColVal(val), called on a buffer the pool handed out.
ChkAddColVal(val) ==
    /\ hChk # {}
    /\ checkRow.rowToCheck.len < MaxRowLen
    /\ LET r == CheckRowAddColVal(memD, checkRow, val)
       IN Commit(memI, r.memD, memB, encodeRow, r.buf, stmtBufs, NilSlice)
    /\ lastOp' = [op |-> "ChkAddColVal"]
    /\ chkAdded' = Append(chkAdded, val)
    /\ UNCHANGED <<hEnc, hChk, encAdded, ensureVars, genVars>>

\* CheckRowBuffer.GetRowToCheck(), called on a buffer the pool handed out.
GetRowToCheck ==
    /\ hChk # {}
    /\ Commit(memI, memD, memB, encodeRow, checkRow, stmtBufs, NilSlice)
    /\ lastOp' = [op |-> "GetRowToCheck",
                  ret |-> CheckRowGetRowToCheck(memD, checkRow)]
    /\ UNCHANGED <<hEnc, hChk, encAdded, chkAdded, ensureVars, genVars>>

\* The encoder's own error deciding, although the error context returned nil.
ErrAfterHandleKeepsRaw(rawErr, handledErr) ==
    IF rawErr # Nil THEN rawErr ELSE handledErr

\* err = ec.HandleError(err): the error the method goes on with is the one the
\* error context returned, not the encoder's.
ErrAfterHandle(rawErr, handledErr) == handledErr

\* A checksum descriptor whatever the configuration says.
ChecksumAlways(cfgChecksum, handle) == <<handle>>

\* The checksum WriteMemBufferEncoded hands the encoder: a raw checksum over
\* the handle when row level checksums are enabled, none otherwise.
Checksum(cfgChecksum, handle) == IF cfgChecksum THEN <<handle>> ELSE <<>>

\* The length without the factor of the interleaved id, value format.
AddRowValuesLenOfRow(k) == k

\* The length WriteMemBufferEncoded gives AddRowValues for a row of k values.
AddRowValuesLen(k) == k * 2

\* RowValBuf never assigned: the encoder's bytes are not kept for the next row.
RowValBufAfterEncodeNever(sb, encoded, err) == sb.RowValBuf

\* RowValBuf assigned before the error is looked at.
RowValBufAfterEncodeAlways(sb, encoded, err) == encoded

\* RowValBuf after the encoder returned: the encoder's bytes, unless the error
\* context returned an error (the method returns before the assignment).
RowValBufAfterEncode(sb, encoded, err) ==
    IF err # Nil THEN sb.RowValBuf ELSE encoded

\* The store operation without the flags.
StoreCallAlwaysSet(key, encoded, flags) ==
    [op |-> "Set", key |-> key, value |-> encoded, flags |-> <<>>]

\* The store operation WriteMemBufferEncoded ends with.
StoreCall(key, encoded, flags) ==
    IF Len(flags) = 0
    THEN [op |-> "Set", key |-> key, value |-> encoded, flags |-> <<>>]
    ELSE [op |-> "SetWithFlags", key |-> key, value |-> encoded, flags |-> flags]

\* EncodeRowBuffer.WriteMemBufferEncoded(cfg, loc, ec, memBuffer, key, handle, flags...):
\* what it hands the encoder (encCall) and the store (storeCalls), what it
\* leaves in the scratch buffers and what it returns.  encErr, level and setErr
\* are the outcomes of the encoder, of the error context's policy and of the
\* store operation.
WriteEncoded(mI, mD, mB, b, sb, cfgChecksum, handle, key, flags, encErr, level, setErr) ==
    LET checksum == Checksum(cfgChecksum, handle)
        r   == ensureCapacityAndReset(mD, sb.AddRowValues, AddRowValuesLen(b.row.len), <<>>)
        sb1 == [sb EXCEPT !.AddRowValues = r.slice]
        e   == EncodeRow(mB, View(r.mem, b.row), View(mI, b.colIDs),
                         sb1.RowValBuf, sb1.AddRowValues, encErr)
        err == ErrAfterHandle(e.err, HandleError(e.err, level))
    IN [memD |-> r.mem, memB |-> e.memB,
        stmtBufs |-> [sb1 EXCEPT !.RowValBuf = RowValBufAfterEncode(sb1, e.bytes, err)],
        encCall |-> [row |-> View(r.mem, b.row), colIDs |-> View(mI, b.colIDs),
                     valBuf |-> sb1.RowValBuf, values |-> sb1.AddRowValues,
                     checksum |-> checksum],
        encRet |-> [bytes |-> e.bytes, err |-> e.err],
        handled |-> err,
        storeCalls |-> IF err # Nil THEN <<>> ELSE <<StoreCall(key, e.bytes, flags)>>,
        ret |-> IF err # Nil THEN err ELSE setErr]

\* WriteMemBufferEncoded resetting the buffer once the row is written.
WriteMemBufferEncodedConsumesRow(cfgChecksum, handle, key, flags, encErr, level, setErr) ==
    /\ hEnc # {}
    /\ LET w == WriteEncoded(memI, memD, memB, encodeRow, stmtBufs, cfgChecksum,
                             handle, key, flags, encErr, level, setErr)
           r == EncodeRowReset(memI, w.memD, encodeRow, 0)
       IN /\ Commit(r.memI, r.memD, w.memB, r.buf, checkRow, w.stmtBufs, NilSlice)
          /\ lastOp' = [op |-> "WriteMemBufferEncoded",
                        encErr |-> w.encRet.err,
                        handled |-> w.handled,
                        store |-> [i \in 1..Len(w.storeCalls) |-> w.storeCalls[i].op],
                        ret |-> w.ret]
    /\ UNCHANGED <<hEnc, hChk, encAdded, chkAdded, ensureVars, genVars>>

\* EncodeRowBuffer.WriteMemBufferEncoded, called on a buffer the pool handed out.
WriteMemBufferEncoded(cfgChecksum, handle, key, flags, encErr, level, setErr) ==
    /\ hEnc # {}
    /\ LET w == WriteEncoded(memI, memD, memB, encodeRow, stmtBufs, cfgChecksum,
                             handle, key, flags, encErr, level, setErr)
       IN /\ Commit(memI, w.memD, w.memB, encodeRow, checkRow, w.stmtBufs, NilSlice)
          /\ lastOp' = [op |-> "WriteMemBufferEncoded",
                        encErr |-> w.encRet.err,
                        handled |-> w.handled,
                        store |-> [i \in 1..Len(w.storeCalls) |-> w.storeCalls[i].op],
                        ret |-> w.ret]
    /\ UNCHANGED <<hEnc, hChk, encAdded, chkAdded, ensureVars, genVars>>

\* EncodeBinlogRowData handing the encoder the scratch buffers.
EncodeBinlogIntoScratch(mI, mD, mB, b, sb, encErr, level) ==
    LET e   == EncodeRow(mB, View(mD, b.row), View(mI, b.colIDs),
                         sb.RowValBuf, sb.AddRowValues, encErr)
        err == HandleError(e.err, level)
        encCall == [row |-> View(mD, b.row), colIDs |-> View(mI, b.colIDs),
                    valBuf |-> sb.RowValBuf, values |-> sb.AddRowValues]
    IN IF err # Nil
       THEN [memB |-> e.memB, encCall |-> encCall, encErr |-> e.err,
             ret |-> NilSlice, err |-> err]
       ELSE [memB |-> e.memB, encCall |-> encCall, encErr |-> e.err,
             ret |-> e.bytes, err |-> Nil]

\* EncodeRowBuffer.EncodeBinlogRowData(loc, ec): the encoder is given no
\* scratch buffer (nil, nil).
EncodeBinlog(mI, mD, mB, b, sb, encErr, level) ==
    LET e   == EncodeRow(mB, View(mD, b.row), View(mI, b.colIDs),
                         NilSlice, NilSlice, encErr)
        err == ErrAfterHandle(e.err, HandleError(e.err, level))
        encCall == [row |-> View(mD, b.row), colIDs |-> View(mI, b.colIDs),
                    valBuf |-> NilSlice, values |-> NilSlice]
    IN IF err # Nil
       THEN [memB |-> e.memB, encCall |-> encCall, encErr |-> e.err,
             ret |-> NilSlice, err |-> err]
       ELSE [memB |-> e.memB, encCall |-> encCall, encErr |-> e.err,
             ret |-> e.bytes, err |-> Nil]

\* EncodeRowBuffer.EncodeBinlogRowData, called on a buffer the pool handed out; the
\* caller keeps the returned bytes until the next call.
EncodeBinlogRowData(encErr, level) ==
    /\ hEnc # {}
    /\ LET w == EncodeBinlog(memI, memD, memB, encodeRow, stmtBufs, encErr, level)
       IN /\ Commit(memI, memD, w.memB, encodeRow, checkRow, stmtBufs, w.ret)
          /\ lastOp' = [op |-> "EncodeBinlogRowData",
                        ret |-> Moved(RootsB(stmtBufs, w.ret), w.ret),
                        err |-> w.err]
    /\ UNCHANGED <<hEnc, hChk, encAdded, chkAdded, ensureVars, genVars>>

\* The caller of EncodeBinlogRowData overwrites byte i of the bytes it was
\* returned, and drops them.
MutateReturned(i) ==
    /\ lastOp.op = "EncodeBinlogRowData"
    /\ i \in 1..lastOp.ret.len
    /\ Commit(memI, memD, [memB EXCEPT ![lastOp.ret.ptr][i] = Scribble],
              encodeRow, checkRow, stmtBufs, NilSlice)
    /\ lastOp' = [op |-> "MutateReturned"]
    /\ UNCHANGED <<hEnc, hChk, encAdded, chkAdded, ensureVars, genVars>>

\* MutateBuffers.GetWriteStmtBufs(): the WriteStmtBufs the pool was built with.
\* after: the WriteMemBufferEncoded this call follows, with only calls of
\* GetWriteStmtBufs in between, if there is one.
GetWriteStmtBufs ==
    /\ Commit(memI, memD, memB, encodeRow, checkRow, stmtBufs, NilSlice)
    /\ lastOp' = [op |-> "GetWriteStmtBufs",
                  ret |-> MutateBuffers.stmtBufs,
                  after |-> IF lastOp.op = "GetWriteStmtBufs" THEN lastOp.after
                            ELSE IF lastOp.op = "WriteMemBufferEncoded" THEN lastOp
                            ELSE [op |-> "none"]]
    /\ UNCHANGED <<hEnc, hChk, encAdded, chkAdded, ensureVars, genVars>>

-----------------------------------------------------------------------------
(* ensureCapacityAndReset on its own: any store, any length, any hint *)

OptCaps == {<<>>} \cup {<<n>> : n \in 0..MaxEnsure}

\* One call slice = ensureCapacityAndReset(slice, size, optCap...); a panic
\* leaves the caller's slice as it was.
EnsureCall(size, optCap) ==
    LET r == ensureCapacityAndReset(ecMem, ecSlice, size, optCap) IN
    /\ ecOut' = [op |-> "ensureCapacityAndReset", size |-> size, optCap |-> optCap,
                 before |-> ecSlice, panic |-> r.panic,
                 reused |-> r.slice.ptr = ecSlice.ptr]
    /\ ecSlice' = IF r.panic THEN ecSlice ELSE Moved(<<r.slice>>, r.slice)
    /\ ecMem' = IF r.panic THEN ecMem ELSE Collect(r.mem, <<r.slice>>)
    /\ UNCHANGED <<poolVars, genVars>>

\* The owner of the slice writes x to element i of it.
EnsureStore(i, x) ==
    /\ i \in 1..ecSlice.len
    /\ ecMem' = [ecMem EXCEPT ![ecSlice.ptr][i] = x]
    /\ ecOut' = [op |-> "store"]
    /\ UNCHANGED <<ecSlice, poolVars, genVars>>

-----------------------------------------------------------------------------
(* The generated code: safeToShareAcrossSession(flag, args) of safeHeader,    *)
(* which the method of safeFuncTemp calls with the signature's flag and args. *)
(* Every caller runs it in steps: the atomic load, one call of an argument's  *)
(* SafeToShareAcrossSession at a time, the atomic store, the return.          *)

Callers == 1..NumCallers

\* The argument lists of a signature: what each argument's
\* SafeToShareAcrossSession answers, every time it is asked.
ArgAnswers ==
    UNION {[1..n -> BOOLEAN] : n \in 0..MaxArgs}

\* A builtin function signature is built with its arguments; its
\* safeToShareAcrossSessionFlag has the zero value.
NewSig(a) ==
    /\ ~sigBuilt
    /\ sigBuilt' = TRUE
    /\ args' = a
    /\ flag' = 0
    /\ UNCHANGED <<calls, returned, collected, poolVars, ensureVars>>

\* Caller c calls s.SafeToShareAcrossSession().
CallSafeToShare(c) ==
    /\ sigBuilt
    /\ calls[c].pc \in {"idle", "done"}
    /\ calls' = [calls EXCEPT ![c] = [IdleCall EXCEPT !.pc = "load"]]
    /\ UNCHANGED <<sigBuilt, args, flag, returned, collected, poolVars, ensureVars>>

\* Any flag that is set read as safe.
CachedAnswerNonZero(flagV) == flagV # 0

\* return flagV == 1
CachedAnswer(flagV) == flagV = 1

\* flagV := atomic.LoadUint32(flag); if flagV != 0 { return flagV == 1 };
\* allArgsSafe := true
LoadFlag(c) ==
    /\ calls[c].pc = "load"
    /\ IF flag # 0
       THEN /\ calls' = [calls EXCEPT ![c].pc = "done", ![c].flagV = flag,
                                      ![c].result = CachedAnswer(flag)]
            /\ returned' = returned \cup {CachedAnswer(flag)}
       ELSE /\ calls' = [calls EXCEPT ![c].pc = "loop", ![c].flagV = flag,
                                      ![c].allArgsSafe = TRUE]
            /\ UNCHANGED returned
    /\ UNCHANGED <<sigBuilt, args, flag, collected, poolVars, ensureVars>>

\* One round of for _, arg := range args: the next argument is asked, and an
\* unsafe one ends the loop; after the last argument the loop is left.
AskArg(c) ==
    /\ calls[c].pc = "loop"
    /\ IF calls[c].asked < Len(args)
       THEN IF args[calls[c].asked + 1]
            THEN calls' = [calls EXCEPT ![c].asked = @ + 1]
            ELSE calls' = [calls EXCEPT ![c].asked = @ + 1,
                                        ![c].allArgsSafe = FALSE, ![c].pc = "store"]
       ELSE calls' = [calls EXCEPT ![c].pc = "store"]
    /\ UNCHANGED <<sigBuilt, args, flag, returned, collected, poolVars, ensureVars>>

\* if allArgsSafe { atomic.StoreUint32(flag, 1) } else { atomic.StoreUint32(flag, 2) }
StoreFlag(c) ==
    /\ calls[c].pc = "store"
    /\ flag' = IF calls[c].allArgsSafe THEN 1 ELSE 2
    /\ calls' = [calls EXCEPT ![c].pc = "return"]
    /\ UNCHANGED <<sigBuilt, args, returned, collected, poolVars, ensureVars>>

\* return allArgsSafe
ReturnAllArgsSafe(c) ==
    /\ calls[c].pc = "return"
    /\ calls' = [calls EXCEPT ![c].pc = "done", ![c].result = calls[c].allArgsSafe]
    /\ returned' = returned \cup {calls[c].allArgsSafe}
    /\ UNCHANGED <<sigBuilt, args, flag, collected, poolVars, ensureVars>>

ShareNext ==
    \/ \E a \in ArgAnswers : NewSig(a)
    \/ \E c \in Callers :
          \/ CallSafeToShare(c)
          \/ LoadFlag(c)
          \/ AskArg(c)
          \/ StoreFlag(c)
          \/ ReturnAllArgsSafe(c)

\* Concurrent callers of SafeToShareAcrossSession on one signature.
SpecShare == Init /\ [][ShareNext]_vars

-----------------------------------------------------------------------------
(* The generator: collectThreadSafeBuiltinFuncs.  A parsed file is the        *)
(* sequence of its type declarations, the ast.TypeSpec nodes, in the order    *)
(* ast.Inspect visits them, those inside function bodies included.  A type   *)
(* name is the sequence of the pieces of the identifier, so that the prefix   *)
(* and the suffix of the string are its first and last piece.                *)

HasPrefix(typeName, prefix) == Len(typeName) >= 1 /\ typeName[1] = prefix

HasSuffix(typeName, suffix) == Len(typeName) >= 1 /\ typeName[Len(typeName)] = suffix

BuiltinSig(middle) == <<"builtin", middle, "Sig">>

specialSafeFuncs ==
    {BuiltinSig("InInt"), BuiltinSig("InString"), BuiltinSig("InReal"),
     BuiltinSig("InDecimal"), BuiltinSig("InTime"), BuiltinSig("InDuration"),
     BuiltinSig("RealIsTrue"), BuiltinSig("DecimalIsTrue"), BuiltinSig("IntIsTrue"),
     BuiltinSig("RealIsFalse"), BuiltinSig("DecimalIsFalse"), BuiltinSig("IntIsFalse")}

\* Type names of the declarations: a special one, an ordinary builtin*Sig,
\* one without the suffix and one without the prefix.
TypeNames ==
    {BuiltinSig("InInt"), BuiltinSig("Abs"), <<"builtin", "Abs">>, <<"my", "Abs", "Sig">>}

\* A field's type expression: an identifier (an ast.Ident) or another expression.
Ident(name) == [ident |-> TRUE, name |-> name]
StarExpr(name) == [ident |-> FALSE, name |-> name]

\* structType.Fields.List of the struct types of the declarations.
FieldLists ==
    {<<>>,
     <<Ident("baseBuiltinFunc")>>,
     <<Ident("baseBuiltinCastFunc")>>,
     <<Ident("int")>>,
     <<StarExpr("baseBuiltinFunc")>>,
     <<Ident("baseBuiltinFunc"), Ident("int")>>,
     <<Ident("baseBuiltinFunc"), Ident("baseBuiltinFunc")>>}

\* x.Type: a struct type with its field list, or a type that is no struct.
StructType(fields) == [struct |-> TRUE, fields |-> fields]
OtherType == [struct |-> FALSE, fields |-> <<>>]

TypeSpecs ==
    [name : TypeNames, type : {StructType(l) : l \in FieldLists} \cup {OtherType}]

Files == UNION {[1..n -> TypeSpecs] : n \in 0..MaxTypes}

\* The type name should be "builtin*Sig" and the type must be a structure.
IsBuiltinSigStruct(x) ==
    /\ HasPrefix(x.name, "builtin")
    /\ HasSuffix(x.name, "Sig")
    /\ x.type.struct

\* Any struct that embeds a base function among its fields.
OneBaseFieldAmongFields(structType) ==
    /\ Len(structType.fields) >= 1
    /\ structType.fields[1].ident
    /\ structType.fields[1].name \in {"baseBuiltinFunc", "baseBuiltinCastFunc"}

\* This builtinXSig has only 1 field and this field is baseBuiltinFunc or
\* baseBuiltinCastFunc.
OneBaseField(structType) ==
    /\ Len(structType.fields) = 1
    /\ structType.fields[1].ident
    /\ structType.fields[1].name \in {"baseBuiltinFunc", "baseBuiltinCastFunc"}

NamesOf(specs) == [i \in 1..Len(specs) |-> specs[i].name]

SeqRange(q) == {q[i] : i \in 1..Len(q)}

collectThreadSafeBuiltinFuncs(file) ==
    LET allFuncNames == NamesOf(SelectSeq(file, IsBuiltinSigStruct))
        safeFuncNames ==
            NamesOf(SelectSeq(file,
                LAMBDA x : /\ IsBuiltinSigStruct(x)
                           /\ \/ x.name \in specialSafeFuncs
                              \/ OneBaseField(x.type)))
        safeFuncMap == SeqRange(safeFuncNames)
        unsafeFuncNames == SelectSeq(allFuncNames, LAMBDA fName : fName \notin safeFuncMap)
    IN  [safeFuncNames |-> safeFuncNames, unsafeFuncNames |-> unsafeFuncNames]

\* The generator collects the names of one file.
CollectCall(file) ==
    /\ collected.op = "none"
    /\ collected' = [op |-> "collect", file |-> file,
                     ret |-> collectThreadSafeBuiltinFuncs(file)]
    /\ UNCHANGED <<shareVars, poolVars, ensureVars>>

\* One file is collected in a run of the generator.
CollectNext ==
    /\ collected.op = "none"
    /\ \E file \in Files : CollectCall(file)

SpecCollect == Init /\ [][CollectNext]_vars

-----------------------------------------------------------------------------
(* Specifications *)

\* Inputs of WriteMemBufferEncoded and EncodeBinlogRowData: checksum
\* configuration and handle, key, flags, and the outcome of the encoder with
\* the level of the error context.
StepCks == {<<FALSE, 7>>, <<TRUE, 8>>}
StepKeys == {"k1"}
StepFlags == {<<>>, <<"F2", "F1">>}
StepEnc == {<<Nil, "error">>, <<"ErrEncode", "error">>, <<"ErrEncode", "ignore">>}
\* The calls of WriteMemBufferEncoded the steps make, as <<checksum and handle,
\* key, flags, encoder error, error level, store error>>: the encoder
\* succeeds, and the store is reached with and without flags and succeeds or
\* fails; the encoder fails and the error context returns its error; the
\* encoder fails and the error context suppresses the error.
StepWrites ==
    {<<ck, "k1", f, Nil, "error", se>> :
        ck \in {<<TRUE, 8>>}, f \in StepFlags, se \in SetErrs}
    \cup {<<<<FALSE, 7>>, "k1", <<>>, "ErrEncode", "error", Nil>>,
          <<<<FALSE, 7>>, "k1", <<"F2", "F1">>, "ErrEncode", "ignore", "ErrSet">>}

\* The capacities the callers of Reset and Get...WithCap ask for.
CapHints == {0, MaxCapHint}

EncodeNext ==
    \/ \E n \in CapHints : GetEncodeRowBufferWithCap(n)
    \/ \E n \in CapHints : EncReset(n)
    \/ \E col \in Cols : EncAddColVal(col[1], col[2])
    \/ \E c \in StepWrites :
            WriteMemBufferEncoded(c[1][1], c[1][2], c[2], c[3], c[4], c[5], c[6])
    \/ \E en \in StepEnc : EncodeBinlogRowData(en[1], en[2])
    \/ MutateReturned(1)

CheckNext ==
    \/ \E n \in CapHints : GetCheckRowBufferWithCap(n)
    \/ \E n \in CapHints : ChkReset(n)
    \/ \E v \in Datums : ChkAddColVal(v)
    \/ GetRowToCheck

\* The operations that fill and reset the two buffers, encode the row for the
\* binlog and read the check row.
PoolNext ==
    \/ \E n \in CapHints : GetEncodeRowBufferWithCap(n)
    \/ \E n \in CapHints : EncReset(n)
    \/ \E col \in Cols : EncAddColVal(col[1], col[2])
    \/ \E en \in StepEnc : EncodeBinlogRowData(en[1], en[2])
    \/ CheckNext

\* The encode buffer in use, and the scratch buffers read through the pool.
ScratchNext ==
    \/ EncodeNext
    \/ GetWriteStmtBufs

\* An encode cycle and a check cycle of the one pool, interleaved in any
\* order: the encode cycle adds the columns <<1, 10>>, <<2, 20>>, ... in this
\* order and ends in a write (that succeeds, or whose encoder fails) or in the
\* binlog encoding; the check cycle adds the value 20 and reads the row.
BothNext ==
    \/ \E n \in CapHints : GetEncodeRowBufferWithCap(n)
    \/ \E n \in CapHints : EncReset(n)
    \/ /\ encodeRow.row.len < MaxInterleavedLen
       /\ EncAddColVal(encodeRow.row.len + 1, 10 * (encodeRow.row.len + 1))
    \/ \E ee \in EncErrs : WriteMemBufferEncoded(TRUE, 8, "k1", <<>>, ee, "error", Nil)
    \/ EncodeBinlogRowData(Nil, "error")
    \/ \E n \in CapHints : GetCheckRowBufferWithCap(n)
    \/ \E n \in CapHints : ChkReset(n)
    \/ checkRow.rowToCheck.len < MaxInterleavedLen /\ ChkAddColVal(20)
    \/ GetRowToCheck

EnsureNext ==
    \/ \E n \in 0..MaxEnsure, oc \in OptCaps : EnsureCall(n, oc)
    \/ \E i \in 1..MaxEnsure, x \in Datums : EnsureStore(i, x)

Next == EncodeNext \/ CheckNext \/ GetWriteStmtBufs

\* The encode buffer of the pool in use, in any order of calls.
SpecEncode == Init /\ [][EncodeNext]_vars

\* Both buffers of the pool being filled, reset and (the check row) read.
SpecPool == Init /\ [][PoolNext]_vars

\* The encode buffer of the pool in use and the scratch buffers read through
\* GetWriteStmtBufs, in any order of calls.
SpecScratch == Init /\ [][ScratchNext]_vars

\* The encode cycle and the check cycle of one pool, interleaved.
SpecBoth == Init /\ [][BothNext]_vars

\* ensureCapacityAndReset applied to arbitrary inputs.
SpecEnsure == Init /\ [][EnsureNext]_vars

\* Every operation of the pool and its two buffers, in any order.
Spec == Init /\ [][Next]_vars

-----------------------------------------------------------------------------
(* Claims *)

\* The capacities of the three backing sequences of the two buffers.
Caps == <<encodeRow.colIDs.cap, encodeRow.row.cap, checkRow.rowToCheck.cap>>

\* C1: along any sequence of Reset(n) and AddColVal calls (and the pool's Get
\* calls, which reset), the capacity of colIDs, of row and of rowToCheck never
\* decreases; so after Reset(n) and a later Reset(m) with m < n the capacity is
\* still at least the one Reset(n) established.
C1_CapacityNeverShrinks ==
    [][\A i \in 1..3 : Caps'[i] >= Caps[i]]_vars

\* A Reset(m) of the encode buffer with m below the capacity its two arrays
\* had reached: they keep that capacity; the check buffer holds a used array
\* that a Reset emptied as well.
C1_Witness ==
    /\ lastOp.op = "EncReset"
    /\ lastOp.capacity < encodeRow.row.cap
    /\ lastOp.capacity < encodeRow.colIDs.cap
    /\ encodeRow.row.len = 0
    /\ checkRow.rowToCheck.cap > 0
    /\ checkRow.rowToCheck.len = 0
    /\ Cells(memD, checkRow.rowToCheck)[1] # 0

\* The elements of a sequence, as a set.
Elems(q) == {q[i] : i \in 1..Len(q)}

\* The ids and the values added to the encode buffer since its last Reset.
AddedIDs == [i \in 1..Len(encAdded) |-> encAdded[i][1]]
AddedVals == [i \in 1..Len(encAdded) |-> encAdded[i][2]]

\* What WriteMemBufferEncoded does in the current state, for every call the
\* steps make.
WriteCases ==
    {WriteEncoded(memI, memD, memB, encodeRow, stmtBufs, c[1][1], c[1][2], c[2],
                  c[3], c[4], c[5], c[6]) : c \in StepWrites}

\* What EncodeBinlogRowData does in the current state, for every input.
BinlogCases ==
    {EncodeBinlog(memI, memD, memB, encodeRow, stmtBufs, ee, lv) :
        ee \in EncErrs, lv \in ErrLevels}

\* C2: whatever was added to a buffer before its last Reset is not handed on:
\* the ids and values WriteMemBufferEncoded and EncodeBinlogRowData hand the
\* encoder, and the row GetRowToCheck returns, hold as many elements as were
\* added since the last Reset and only elements that were added since then,
\* although the backing arrays still hold older elements beyond that length.
C2_ResetIsolation ==
    /\ \A w \in WriteCases \cup BinlogCases :
          /\ Len(w.encCall.row) = Len(encAdded)
          /\ Len(w.encCall.colIDs) = Len(encAdded)
          /\ Elems(w.encCall.row) \subseteq Elems(AddedVals)
          /\ Elems(w.encCall.colIDs) \subseteq Elems(AddedIDs)
    /\ Len(CheckRowGetRowToCheck(memD, checkRow)) = Len(chkAdded)
    /\ Elems(CheckRowGetRowToCheck(memD, checkRow)) \subseteq Elems(chkAdded)
    /\ lastOp.op = "GetRowToCheck" => Elems(lastOp.ret) \subseteq Elems(chkAdded)

\* The row was encoded for the binlog in a cycle that added one column while
\* the arrays of both buffers still hold, beyond the logical length, a value
\* of an earlier cycle that the current cycle did not add.
C2_Witness ==
    /\ lastOp.op = "EncodeBinlogRowData"
    /\ lastOp.err = Nil
    /\ Len(encAdded) = 1
    /\ encodeRow.row.cap >= 2
    /\ Cells(memD, encodeRow.row)[2] \in Datums \ Elems(AddedVals)
    /\ Cells(memI, encodeRow.colIDs)[2] \notin Elems(AddedIDs) \cup {0}
    /\ Len(chkAdded) = 1
    /\ checkRow.rowToCheck.cap >= 2
    /\ Cells(memD, checkRow.rowToCheck)[2] \in Datums \ Elems(chkAdded)

\* C3: after Reset and k >= 0 calls AddColVal(id_i, v_i), WriteMemBufferEncoded
\* hands the encoder columnIDs = <<id_1, ..., id_k>> and values = <<v_1, ..., v_k>>
\* in that order, duplicates kept, whether or not the appends made the arrays
\* grow, and whether the encoder and the store succeed or fail.
C3_PositionalCorrespondence ==
    \A w \in WriteCases :
        /\ w.encCall.colIDs = AddedIDs
        /\ w.encCall.row = AddedVals

\* A row of two columns with the same id was written: the encoder's output
\* for exactly that row is in the primary scratch area, and the arrays had to
\* grow for the second column or were reset to hold both.
C3_Witness ==
    /\ lastOp.op = "WriteMemBufferEncoded"
    /\ lastOp.ret = Nil
    /\ Len(encAdded) = 2
    /\ encAdded[1][1] = encAdded[2][1]
    /\ View(memB, stmtBufs.RowValBuf) = EncodedBytes(AddedVals, AddedIDs)

\* C4: GetRowToCheck returns exactly the values added by AddColVal since the
\* last Reset, in insertion order, none extra and none missing, in every
\* state, also when the adds outgrew the capacity the Reset asked for.
C4_RowViewExactness ==
    /\ CheckRowGetRowToCheck(memD, checkRow) = chkAdded
    /\ lastOp.op = "GetRowToCheck" => lastOp.ret = chkAdded

\* GetRowToCheck returned two distinct values in the order they were added.
C4_Witness ==
    /\ lastOp.op = "GetRowToCheck"
    /\ chkAdded = <<20, 10>>
    /\ lastOp.ret = <<20, 10>>

\* C5: after WriteMemBufferEncoded on a buffer holding k values the logical
\* length of AddRowValues is 2k, whether the encoder and the store succeed or
\* fail, whatever the length and the capacity of AddRowValues were before.
C5_ScratchResizing ==
    /\ \A w \in WriteCases : w.stmtBufs.AddRowValues.len = 2 * Len(encAdded)
    /\ lastOp.op = "WriteMemBufferEncoded" =>
            stmtBufs.AddRowValues.len = 2 * Len(encAdded)

\* A row of one value was written after a row of two: AddRowValues kept the
\* array of four cells and has length two.
C5_Witness ==
    /\ lastOp.op = "WriteMemBufferEncoded"
    /\ Len(encAdded) = 1
    /\ stmtBufs.AddRowValues.len = 2
    /\ stmtBufs.AddRowValues.cap = 4

\* C6: when the error context's outcome of the encoding is nil,
\* WriteMemBufferEncoded performs exactly one store operation, under the given
\* key and with the bytes the encoder returned: Set when no flags were given,
\* SetWithFlags with exactly the given flags otherwise, whatever the other
\* inputs are; and it returns the error of the store operation.
C6_StoreOperationChoice ==
    \A ck \in StepCks, k \in Keys, f \in FlagSeqs, ee \in EncErrs,
       lv \in ErrLevels, se \in SetErrs :
        LET w == WriteEncoded(memI, memD, memB, encodeRow, stmtBufs, ck[1], ck[2],
                              k, f, ee, lv, se)
        IN w.handled = Nil =>
              /\ Len(w.storeCalls) = 1
              /\ w.storeCalls[1] =
                    [op |-> IF f = <<>> THEN "Set" ELSE "SetWithFlags",
                     key |-> k, value |-> w.encRet.bytes, flags |-> f]
              /\ w.ret = se

\* A write with flags reached the store as one SetWithFlags, and the error the
\* store returned is what the call returned.
C6_Witness ==
    /\ lastOp.op = "WriteMemBufferEncoded"
    /\ lastOp.handled = Nil
    /\ lastOp.store = <<"SetWithFlags">>
    /\ lastOp.ret = "ErrSet"
    /\ Len(encAdded) > 0

\* C7: the error of the encoder goes through the error context, whose return
\* value decides: when it is an error, WriteMemBufferEncoded returns that
\* error, performs no store operation and leaves RowValBuf as it was, and
\* EncodeBinlogRowData returns nil bytes and that error.
C7_EncodingErrorPassThrough ==
    /\ \A ck \in StepCks, k \in StepKeys, f \in StepFlags, ee \in EncErrs,
          lv \in ErrLevels, se \in SetErrs :
          LET w == WriteEncoded(memI, memD, memB, encodeRow, stmtBufs, ck[1], ck[2],
                                k, f, ee, lv, se)
          IN /\ w.handled = HandleError(w.encRet.err, lv)
             /\ w.handled # Nil =>
                   /\ w.ret = w.handled
                   /\ w.storeCalls = <<>>
                   /\ w.stmtBufs.RowValBuf = stmtBufs.RowValBuf
    /\ \A ee \in EncErrs, lv \in ErrLevels :
          LET w == EncodeBinlog(memI, memD, memB, encodeRow, stmtBufs, ee, lv)
          IN /\ w.err = HandleError(w.encErr, lv)
             /\ w.err # Nil => w.ret = NilSlice

\* A write failed with the encoder's error and no store operation while
\* RowValBuf holds the bytes of an earlier row.
C7_Witness ==
    /\ lastOp.op = "WriteMemBufferEncoded"
    /\ lastOp.ret = "ErrEncode"
    /\ lastOp.store = <<>>
    /\ stmtBufs.RowValBuf.len > 0
    /\ View(memB, stmtBufs.RowValBuf) # EncodedBytes(AddedVals, AddedIDs)

\* C8: the bytes EncodeBinlogRowData returns share no array with RowValBuf
\* (colIDs, row and AddRowValues are arrays of other element types); the call,
\* and a write of its caller to the returned bytes, change nothing in the
\* buffer, in the scratch buffers or in the cells of their arrays.
C8_BinlogBytesIndependent ==
    [][lastOp'.op \in {"EncodeBinlogRowData", "MutateReturned"} =>
          /\ encodeRow' = encodeRow
          /\ stmtBufs' = stmtBufs
          /\ memI' = memI
          /\ memD' = memD
          /\ Cells(memB', stmtBufs'.RowValBuf) = Cells(memB, stmtBufs.RowValBuf)
          /\ lastOp'.op = "EncodeBinlogRowData" =>
                \/ lastOp'.ret.ptr = 0
                \/ lastOp'.ret.ptr # stmtBufs'.RowValBuf.ptr]_vars

\* The caller overwrote the bytes EncodeBinlogRowData returned while RowValBuf
\* holds the encoded form of the same row: it still does.
C8_Witness ==
    /\ lastOp.op = "MutateReturned"
    /\ Len(encAdded) = 2
    /\ stmtBufs.RowValBuf.len > 0
    /\ View(memB, stmtBufs.RowValBuf) = EncodedBytes(AddedVals, AddedIDs)

\* The capacity a call of ensureCapacityAndReset asks for: the hint, or the
\* length when there is no hint.
AskedCapacity == IF Len(ecOut.optCap) > 0 THEN ecOut.optCap[1] ELSE ecOut.size

\* C9 as stated: for every existing store, length and hint,
\* ensureCapacityAndReset returns normally and the store it returns has the
\* requested logical length.
C9_NoFailureCondition ==
    ecOut.op = "ensureCapacityAndReset" =>
        /\ ~ecOut.panic
        /\ ecSlice.len = ecOut.size

\* C9, amended: ensureCapacityAndReset returns normally, with a store of the
\* requested logical length, exactly when the length is at most the capacity
\* asked for (always so without a hint) or at most the existing capacity with
\* the existing capacity at least the hint; in the remaining cases (a hint below
\* the length, and an existing capacity that is below the hint or below the
\* length) it panics.
C9_FailsOnlyOnShortHint ==
    ecOut.op = "ensureCapacityAndReset" =>
        /\ ecOut.panic <=>
              /\ ecOut.size > AskedCapacity
              /\ \/ ecOut.before.cap < AskedCapacity
                 \/ ecOut.before.cap < ecOut.size
        /\ ~ecOut.panic => ecSlice.len = ecOut.size

\* A call with a hint below the length returned normally, reusing a store
\* whose capacity is above the length, with cells of its earlier use.
C9_Witness ==
    /\ ecOut.op = "ensureCapacityAndReset"
    /\ ~ecOut.panic
    /\ Len(ecOut.optCap) > 0
    /\ ecOut.optCap[1] < ecOut.size
    /\ ecOut.reused
    /\ ecSlice.len = ecOut.size
    /\ ecSlice.cap > ecOut.size
    /\ Cells(ecMem, ecSlice)[1] # 0

\* C10: every GetEncodeRowBufferWithCap returns the pool's one EncodeRowBuffer
\* and every GetCheckRowBufferWithCap its one CheckRowBuffer, also when the
\* row of the use before has not reached a terminal operation: the call is
\* not refused, no second instance is handed out, the buffer has logical
\* length 0 afterwards, and a value added afterwards is appended to that
\* one buffer.
C10_ReentrantGet ==
    [][/\ lastOp'.op = "GetEncodeRowBufferWithCap" =>
            /\ lastOp'.ret = MutateBuffers.encodeRow
            /\ hEnc' = {MutateBuffers.encodeRow}
            /\ encodeRow'.row.len = 0
            /\ encodeRow'.colIDs.len = 0
       /\ lastOp'.op = "GetCheckRowBufferWithCap" =>
            /\ lastOp'.ret = MutateBuffers.checkRow
            /\ hChk' = {MutateBuffers.checkRow}
            /\ checkRow'.rowToCheck.len = 0
       /\ lastOp'.op = "EncAddColVal" =>
            /\ encodeRow'.row.len = encodeRow.row.len + 1
            /\ SubSeq(View(memD', encodeRow'.row), 1, encodeRow.row.len)
                  = View(memD, encodeRow.row)
       /\ lastOp'.op = "ChkAddColVal" =>
            /\ checkRow'.rowToCheck.len = checkRow.rowToCheck.len + 1
            /\ SubSeq(View(memD', checkRow'.rowToCheck), 1, checkRow.rowToCheck.len)
                  = View(memD, checkRow.rowToCheck)]_vars

\* GetEncodeRowBufferWithCap was called right after an AddColVal: the buffer
\* has length 0 and its array still holds the value of the row in flight;
\* the check buffer was handed out and emptied as well.
C10_Witness ==
    /\ lastOp.op = "GetEncodeRowBufferWithCap"
    /\ lastOp.inFlight
    /\ encodeRow.row.len = 0
    /\ encodeRow.row.cap > 0
    /\ Cells(memD, encodeRow.row)[1] \in Datums
    /\ hChk = {MutateBuffers.checkRow}
    /\ checkRow.rowToCheck.len = 0
    /\ checkRow.rowToCheck.cap > 0
    /\ Cells(memD, checkRow.rowToCheck)[1] \in Datums

\* C11: in every state reached from the new buffer by Reset, AddColVal,
\* WriteMemBufferEncoded and EncodeBinlogRowData (and the pool's Get), colIDs
\* and row have the same length, and the id at index i of colIDs is the id
\* that was added together with the value at index i of row.
C11_ParallelSequences ==
    /\ encodeRow.colIDs.len = encodeRow.row.len
    /\ encodeRow.row.len = Len(encAdded)
    /\ \A i \in 1..encodeRow.row.len :
          <<View(memI, encodeRow.colIDs)[i], View(memD, encodeRow.row)[i]>> = encAdded[i]

\* Two different columns were added, the second id first, and the row was
\* written and then encoded for the binlog: the pairs are in place.
C11_Witness ==
    /\ lastOp.op = "EncodeBinlogRowData"
    /\ stmtBufs.RowValBuf.len > 0
    /\ encAdded = << <<2, 20>>, <<1, 10>> >>
    /\ View(memI, encodeRow.colIDs) = <<2, 1>>
    /\ View(memD, encodeRow.row) = <<20, 10>>

\* What Reset(hint) made of one sequence: `old` in heap `mem` before the call,
\* `new` in heap `mem2` after it.  Length 0 and capacity at least the hint;
\* when the old capacity is at least the hint, the same array with the same
\* cells and no allocation; otherwise an array that was not there before, of
\* at least the hint's capacity, with none of the old contents (all cells zero).
ReusedOrAllocated(mem, old, mem2, new, hint) ==
    /\ new.len = 0
    /\ new.cap >= hint
    /\ old.cap >= hint =>
          /\ new.ptr = old.ptr
          /\ new.cap = old.cap
          /\ mem2 = mem
    /\ old.cap < hint =>
          /\ new.ptr \notin DOMAIN mem
          /\ new.ptr \in DOMAIN mem2
          /\ mem2[new.ptr] = Zeros(new.cap)
          /\ \A a \in DOMAIN mem : mem2[a] = mem[a]

\* C12: Reset(capacityHint), of the encode buffer and of the check buffer, in
\* every state and for every hint, leaves each sequence with length 0 and
\* capacity >= capacityHint, keeps the existing array (no allocation) exactly
\* when its capacity is already >= capacityHint, and replaces it by a new
\* zeroed array exactly when the existing capacity is smaller.
C12_ReuseOrAllocate ==
    \A hint \in 0..MaxCapHint :
        /\ LET r == EncodeRowReset(memI, memD, encodeRow, hint)
           IN /\ ReusedOrAllocated(memI, encodeRow.colIDs, r.memI, r.buf.colIDs, hint)
              /\ ReusedOrAllocated(memD, encodeRow.row, r.memD, r.buf.row, hint)
        /\ LET r == CheckRowReset(memD, checkRow, hint)
           IN ReusedOrAllocated(memD, checkRow.rowToCheck, r.memD, r.buf.rowToCheck, hint)

\* Reset(MaxCapHint) of the encode buffer kept arrays of exactly that capacity
\* (they hold cells of the row before), and the check buffer has an array of
\* that capacity that a Reset allocated and nothing was added to since.
C12_Witness ==
    /\ lastOp.op = "EncReset"
    /\ lastOp.capacity = MaxCapHint
    /\ encodeRow.row = [ptr |-> 1, len |-> 0, cap |-> MaxCapHint]
    /\ Cells(memD, encodeRow.row)[MaxCapHint] \in Datums
    /\ Cells(memI, encodeRow.colIDs)[MaxCapHint] # 0
    /\ hChk # {}
    /\ checkRow.rowToCheck.len = 0
    /\ checkRow.rowToCheck.cap = MaxCapHint
    /\ Cells(memD, checkRow.rowToCheck) = Zeros(MaxCapHint)

\* C13: a WriteMemBufferEncoded with a nil encoding outcome leaves in
\* RowValBuf, the primary area of the scratch buffers GetWriteStmtBufs returns,
\* exactly the bytes the encoder returned and the store was given, also when
\* the store operation fails; and every WriteMemBufferEncoded passes the
\* RowValBuf it finds, hence those bytes, to the encoder as its primary
\* scratch input.
C13_PrimaryScratchHandOver ==
    /\ \A w \in WriteCases :
             /\ w.encCall.valBuf = stmtBufs.RowValBuf
             /\ w.handled = Nil =>
                   /\ w.stmtBufs.RowValBuf = w.encRet.bytes
                   /\ w.storeCalls[1].value = w.stmtBufs.RowValBuf
    /\ LET last == IF lastOp.op = "GetWriteStmtBufs" THEN lastOp.after ELSE lastOp
       IN (last.op = "WriteMemBufferEncoded" /\ last.handled = Nil) =>
             View(memB, stmtBufs.RowValBuf) =
                 IF last.encErr = Nil THEN EncodedBytes(AddedVals, AddedIDs) ELSE <<>>
    /\ lastOp.op = "GetWriteStmtBufs" => lastOp.ret = encodeRow.writeStmtBufs

\* GetWriteStmtBufs was called after a write of a row of two values whose
\* store operation failed: RowValBuf holds the encoded row.
C13_Witness ==
    /\ lastOp.op = "GetWriteStmtBufs"
    /\ lastOp.after.op = "WriteMemBufferEncoded"
    /\ lastOp.after.encErr = Nil
    /\ lastOp.after.ret = "ErrSet"
    /\ Len(encAdded) = 2
    /\ stmtBufs.RowValBuf.len > 0
    /\ View(memB, stmtBufs.RowValBuf) = EncodedBytes(AddedVals, AddedIDs)

\* C14: WriteMemBufferEncoded hands the encoder a checksum descriptor over the
\* handle of that call if and only if row level checksums are enabled in the
\* configuration, and none when they are not; this in every state, so
\* whatever handles the calls before had.
C14_ChecksumDescriptor ==
    \A enabled \in BOOLEAN, h \in Handles, f \in StepFlags, ee \in EncErrs :
        LET w == WriteEncoded(memI, memD, memB, encodeRow, stmtBufs, enabled, h,
                              "k1", f, ee, "error", Nil)
        IN w.encCall.checksum = IF enabled THEN <<h>> ELSE <<>>

\* A row was written with checksums enabled and handle 8 (the only written
\* rows the encoder accepts): a write with handle 7 hands the encoder the
\* descriptor of 7, and a write with checksums disabled hands it none.
C14_Witness ==
    /\ lastOp.op = "WriteMemBufferEncoded"
    /\ lastOp.encErr = Nil
    /\ Len(encAdded) > 0
    /\ WriteEncoded(memI, memD, memB, encodeRow, stmtBufs, TRUE, 7,
                    "k1", <<>>, Nil, "error", Nil).encCall.checksum = <<7>>
    /\ WriteEncoded(memI, memD, memB, encodeRow, stmtBufs, FALSE, 7,
                    "k1", <<>>, Nil, "error", Nil).encCall.checksum = <<>>

\* C15: WriteMemBufferEncoded calls the store and assigns RowValBuf if and
\* only if the error context's result is nil, for every input; so when the
\* encoder reported an error that the error context suppressed, the call
\* stores the bytes the encoder returned under the key, assigns them to
\* RowValBuf and returns the result of the store operation.
C15_SuppressedEncodingError ==
    \A k \in Keys, f \in StepFlags, ee \in EncErrs, lv \in ErrLevels, se \in SetErrs :
        LET w == WriteEncoded(memI, memD, memB, encodeRow, stmtBufs, TRUE, 8,
                              k, f, ee, lv, se)
            suppressed == HandleError(ee, lv) = Nil
        IN /\ Len(w.storeCalls) = (IF suppressed THEN 1 ELSE 0)
           /\ w.stmtBufs.RowValBuf =
                 IF suppressed THEN w.encRet.bytes ELSE stmtBufs.RowValBuf
           /\ (ee # Nil /\ suppressed) =>
                 /\ w.encRet.err = ee
                 /\ w.storeCalls[1].key = k
                 /\ w.storeCalls[1].value = w.encRet.bytes
                 /\ w.ret = se

\* The encoder failed on a row of two values, the error context suppressed
\* the error, and the call went on to the store and returned the store's
\* error; RowValBuf is what the encoder returned, no bytes.
C15_Witness ==
    /\ lastOp.op = "WriteMemBufferEncoded"
    /\ lastOp.encErr = "ErrEncode"
    /\ lastOp.handled = Nil
    /\ lastOp.store = <<"SetWithFlags">>
    /\ lastOp.ret = "ErrSet"
    /\ Len(encAdded) = 2
    /\ stmtBufs.RowValBuf = NilSlice

\* The rows the two buffers hold.
EncIDs == View(memI, encodeRow.colIDs)
EncRow == View(memD, encodeRow.row)
ChkRow == View(memD, checkRow.rowToCheck)

\* C16: WriteMemBufferEncoded, EncodeBinlogRowData and GetRowToCheck leave the
\* length and the contents of colIDs, row and rowToCheck unchanged; an
\* AddColVal appends to the row that is there, whatever the call before it
\* was; and a step that makes a sequence shorter is a Reset or a Get of that
\* sequence's buffer.
C16_TerminalKeepsRow ==
    [][/\ lastOp'.op \in {"WriteMemBufferEncoded", "EncodeBinlogRowData", "GetRowToCheck"} =>
            /\ EncIDs' = EncIDs
            /\ EncRow' = EncRow
            /\ ChkRow' = ChkRow
       /\ lastOp'.op = "EncAddColVal" =>
            /\ Len(EncRow') = Len(EncRow) + 1
            /\ Len(EncIDs') = Len(EncIDs) + 1
            /\ SubSeq(EncRow', 1, Len(EncRow)) = EncRow
            /\ SubSeq(EncIDs', 1, Len(EncIDs)) = EncIDs
       /\ lastOp'.op = "ChkAddColVal" =>
            /\ Len(ChkRow') = Len(ChkRow) + 1
            /\ SubSeq(ChkRow', 1, Len(ChkRow)) = ChkRow
       /\ (Len(EncRow') < Len(EncRow) \/ Len(EncIDs') < Len(EncIDs)) =>
            lastOp'.op \in {"EncReset", "GetEncodeRowBufferWithCap"}
       /\ Len(ChkRow') < Len(ChkRow) =>
            lastOp'.op \in {"ChkReset", "GetCheckRowBufferWithCap"}]_vars

\* The row was written when it had one column, then a second column was added
\* without a Reset and the row of two was encoded for the binlog: RowValBuf
\* still holds the encoding of the first column alone; the check buffer holds
\* a row that GetRowToCheck can read again.
C16_Witness ==
    /\ lastOp.op = "EncodeBinlogRowData"
    /\ lastOp.err = Nil
    /\ EncRow = <<10, 20>>
    /\ EncIDs = <<1, 2>>
    /\ View(memB, stmtBufs.RowValBuf) = EncodedBytes(<<10>>, <<1>>)
    /\ View(memB, lastOp.ret) = EncodedBytes(<<10, 20>>, <<1, 2>>)
    /\ ChkRow = <<20>>

\* The operations on the check buffer and the non-terminal ones on the encode buffer.
CheckOps == {"GetCheckRowBufferWithCap", "ChkReset", "ChkAddColVal", "GetRowToCheck"}
EncodeOps == {"GetEncodeRowBufferWithCap", "EncReset", "EncAddColVal"}

\* The arrays of row, rowToCheck and AddRowValues, which hold elements of the
\* same type, are three different arrays (or absent).
NoSharedArray ==
    /\ encodeRow.row.ptr \in {0, 1}
    /\ checkRow.rowToCheck.ptr \in {0, 2}
    /\ stmtBufs.AddRowValues.ptr \in {0, 3}
    /\ DOMAIN memD = {encodeRow.row.ptr, checkRow.rowToCheck.ptr,
                      stmtBufs.AddRowValues.ptr} \ {0}

\* C17: the two buffers of the pool share no array; an operation on the check
\* buffer leaves colIDs, row and the scratch buffers with the cells of their
\* arrays unchanged, an operation on the encode buffer that is not terminal
\* leaves rowToCheck and its cells unchanged; and in any interleaving each
\* buffer holds exactly the values added to it since its last Reset.
C17_BuffersIndependent ==
    [][/\ NoSharedArray'
       /\ lastOp'.op \in CheckOps =>
            /\ encodeRow' = encodeRow
            /\ stmtBufs' = stmtBufs
            /\ memI' = memI
            /\ Cells(memB', stmtBufs'.RowValBuf) = Cells(memB, stmtBufs.RowValBuf)
            /\ Cells(memD', encodeRow'.row) = Cells(memD, encodeRow.row)
            /\ Cells(memD', stmtBufs'.AddRowValues) = Cells(memD, stmtBufs.AddRowValues)
       /\ lastOp'.op \in EncodeOps =>
            /\ checkRow' = checkRow
            /\ Cells(memD', checkRow'.rowToCheck) = Cells(memD, checkRow.rowToCheck)
       /\ EncRow' = [i \in 1..Len(encAdded') |-> encAdded'[i][2]]
       /\ EncIDs' = [i \in 1..Len(encAdded') |-> encAdded'[i][1]]
       /\ ChkRow' = chkAdded']_vars

\* The check row was read while an encode cycle is in flight: a row of one
\* column was written, a second column was added since, and the three arrays
\* of values are all there.
C17_Witness ==
    /\ lastOp.op = "GetRowToCheck"
    /\ lastOp.ret = <<20, 20>>
    /\ EncRow = <<10, 20>>
    /\ View(memB, stmtBufs.RowValBuf) = EncodedBytes(<<10>>, <<1>>)
    /\ encodeRow.row.ptr = 1
    /\ checkRow.rowToCheck.ptr = 2
    /\ stmtBufs.AddRowValues.ptr = 3

\* Whether every argument of the signature answers safe.
EveryArgSafe == \A i \in 1..Len(args) : args[i]

\* C18: the flag is 0, 1 or 2; a call that read a non-zero flag returned
\* flag = 1 and asked no argument; a call that read 0 returned true exactly
\* when every argument answers safe, and the flag it stored is 1 then and 2
\* otherwise; and with arguments whose answers are stable, in every
\* interleaving of the callers a flag that is not 0 keeps its value and all
\* calls return the same result.
C18_FlagCache ==
    [][/\ flag' \in {0, 1, 2}
       /\ flag # 0 => flag' = flag
       /\ flag' # 0 => flag' = (IF EveryArgSafe' THEN 1 ELSE 2)
       /\ \A c \in Callers :
             /\ calls'[c].pc = "done" =>
                   /\ calls'[c].flagV # 0 =>
                         /\ calls'[c].result = (calls'[c].flagV = 1)
                         /\ calls'[c].asked = 0
                   /\ calls'[c].flagV = 0 => calls'[c].result = EveryArgSafe'
             /\ calls'[c].pc = "return" =>
                   flag' = (IF EveryArgSafe' THEN 1 ELSE 2)
       /\ Cardinality(returned') <= 1]_vars

\* Two callers raced on a signature whose second argument is unsafe: both
\* read the flag 0, both asked the arguments and stored 2, both returned false.
C18_Witness ==
    /\ args = <<TRUE, FALSE>>
    /\ calls[1].pc = "done" /\ calls[1].flagV = 0 /\ calls[1].asked = 2
    /\ calls[2].pc = "done" /\ calls[2].flagV = 0 /\ calls[2].asked = 2
    /\ flag = 2
    /\ returned = {FALSE}

\* The struct has exactly one field entry, whose type is the identifier
\* baseBuiltinFunc or baseBuiltinCastFunc.
QualifiesByFields(x) ==
    /\ x.type.struct
    /\ x.type.fields \in {<<Ident("baseBuiltinFunc")>>, <<Ident("baseBuiltinCastFunc")>>}

NamePattern(n) == Len(n) >= 2 /\ n[1] = "builtin" /\ n[Len(n)] = "Sig"

SafeList == SeqRange(collected.ret.safeFuncNames)
UnsafeList == SeqRange(collected.ret.unsafeFuncNames)

\* C19 as stated, declaration by declaration: the name of every struct type
\* named builtin*Sig is in exactly one list, in the safe one exactly when the
\* name is special or that struct has one field entry of a base type; the name
\* of any other type declaration is in neither list.
C19_PartitionPerDeclaration ==
    collected.op = "collect" =>
        \A i \in 1..Len(collected.file) :
            LET x == collected.file[i] IN
            IF NamePattern(x.name) /\ x.type.struct
            THEN /\ (x.name \in SafeList) # (x.name \in UnsafeList)
                 /\ (x.name \in SafeList) <=>
                        (x.name \in specialSafeFuncs \/ QualifiesByFields(x))
            ELSE x.name \notin SafeList \cup UnsafeList

\* C19: the lists are built by name.  Every name of a struct type named
\* builtin*Sig is in exactly one of the safe and unsafe lists, in the safe one
\* exactly when the name is special or some struct type of that name in the
\* file has exactly one field entry of type baseBuiltinFunc or
\* baseBuiltinCastFunc; a name that no such struct type bears is in neither
\* list.  With one declaration per name this is the statement per declaration.
C19_PartitionByName ==
    collected.op = "collect" =>
        LET file == collected.file
            Bearers(n) == {i \in 1..Len(file) : file[i].name = n /\ file[i].type.struct}
        IN  /\ \A n \in TypeNames :
                IF NamePattern(n) /\ Bearers(n) # {}
                THEN /\ (n \in SafeList) # (n \in UnsafeList)
                     /\ (n \in SafeList) <=>
                            \/ n \in specialSafeFuncs
                            \/ \E i \in Bearers(n) : QualifiesByFields(file[i])
                ELSE n \notin SafeList \cup UnsafeList
            /\ SafeList \cup UnsafeList \subseteq TypeNames
            /\ (\A i, j \in 1..Len(file) : i # j => file[i].name # file[j].name)
                  => C19_PartitionPerDeclaration

\* A file with two struct types of one name, in two function bodies: the first
\* has the single base field, the second has a field of its own besides; the
\* name is in the safe list and not in the unsafe one.
C19_Witness ==
    /\ collected.op = "collect"
    /\ Len(collected.file) = 2
    /\ collected.file[1] = [name |-> BuiltinSig("Abs"),
                            type |-> StructType(<<Ident("baseBuiltinFunc")>>)]
    /\ collected.file[2] = [name |-> BuiltinSig("Abs"),
                            type |-> StructType(<<Ident("baseBuiltinFunc"), Ident("int")>>)]
    /\ collected.ret.safeFuncNames = <<BuiltinSig("Abs")>>
    /\ collected.ret.unsafeFuncNames = <<>>

====
